---- MODULE Spec2Model ----
(***************************************************************************)
(* Model of cqn-rust:                                                      *)
(*   - entities.rs: Definitions::from_str, the CSN (core schema notation)  *)
(*     deserializer, together with the serde-derived decoders of           *)
(*     ElementKind, PrimitiveKind<T>, PrimitiveKindString and Default<T>;  *)
(*   - main.rs: the SELECT builder and CQN::to_sql.                        *)
(*                                                                         *)
(* A JSON document is a serde_json::Value tree.  An object is the sequence *)
(* of its entries in the enumeration order of serde_json::Map; keys are    *)
(* distinct.  A number keeps serde_json's three-way representation         *)
(* (PosInt: u64, NegInt: i64, Float: f64); "wide" marks a PosInt above     *)
(* i64::MAX, which a u64 holds and an i64 does not.                        *)
(***************************************************************************)
EXTENDS Integers, Sequences, FiniteSets, TLC

VARIABLES
    csn,          \* from_str: the input text, as what serde_json reads from it
    pc,           \* from_str: position in the function body
    csn_json,     \* from_str: the parsed document (line 85)
    map,          \* from_str: entries of csn_json["definitions"] (line 86)
    i,            \* from_str: 1-based position of the outer loop (line 91)
    inner,        \* from_str: entries of val["elements"] (line 96)
    j,            \* from_str: 1-based position of the inner loop (line 96)
    elements,     \* from_str: the entity's element accumulator (line 95)
    definitions,  \* from_str: the definition accumulator (line 84)
    result,       \* from_str: the returned Result, NoResult while running
    select,       \* main.rs: the SELECT builder value, NoSelect before from()
    calls,        \* history of the builder calls made on select, in call order
    sql,          \* main.rs: the text returned by the last to_sql, or NoSql
    sqlCalls      \* the value of calls when sql was rendered

vars == <<csn, pc, csn_json, map, i, inner, j, elements, definitions, result,
          select, calls, sql, sqlCalls>>

parseVars == <<csn, pc, csn_json, map, i, inner, j, elements, definitions, result>>
sqlVars == <<select, calls, sql, sqlCalls>>

(***************************************************************************)
(* Bounds of the model.                                                    *)
(***************************************************************************)
MaxDefs == 2      \* entries of the "definitions" object
MaxElems == 2     \* entries of an entity's "elements" object
MaxCalls == 3     \* columns(...) / filter(...) calls on one builder

(***************************************************************************)
(* serde_json::Value.                                                      *)
(***************************************************************************)
JNull == [t |-> "Null"]
JBool(b) == [t |-> "Bool", b |-> b]
JString(s) == [t |-> "String", s |-> s]
JPosInt(n) == [t |-> "Number", N |-> "PosInt", n |-> n, wide |-> FALSE]
JPosIntWide == [t |-> "Number", N |-> "PosInt", n |-> 0, wide |-> TRUE]
JNegInt(n) == [t |-> "Number", N |-> "NegInt", n |-> n, wide |-> FALSE]
JFloat(n) == [t |-> "Number", N |-> "Float", n |-> n, wide |-> FALSE]
JArray(a) == [t |-> "Array", a |-> a]
JObject(m) == [t |-> "Object", m |-> m]
Entry(k, v) == [k |-> k, v |-> v]

\* Membership and lookup in a serde_json::Map.
HasKey(m, k) == \E n \in 1..Len(m) : m[n].k = k
Lookup(m, k) == m[CHOOSE n \in 1..Len(m) : m[n].k = k].v

\* impl Index for str: the member of an object, Null for anything else.
Index(v, k) == IF v.t = "Object" /\ HasKey(v.m, k) THEN Lookup(v.m, k) ELSE JNull

\* Value::as_object.
is_object(v) == v.t = "Object"

\* impl PartialEq<&str> for Value and impl PartialEq<bool> for Value.
eq_str(v, s) == v.t = "String" /\ v.s = s
eq_bool(v, b) == v.t = "Bool" /\ v.b = b

(***************************************************************************)
(* Decode results and decoded values.  A decode step yields Ok(x) or       *)
(* Fail(message); serde_json's messages are kept without their             *)
(* "at line L column C" suffix.                                            *)
(***************************************************************************)
Ok(x) == [ok |-> TRUE, val |-> x, err |-> ""]
Fail(msg) == [ok |-> FALSE, val |-> JNull, err |-> msg]
None == [None |-> TRUE]
Some(x) == [Some |-> x]
Val(x) == [Val |-> x]
RString(s) == [ty |-> "String", s |-> s]
Rbool(b) == [ty |-> "bool", b |-> b]
Ri64(n) == [ty |-> "i64", n |-> n]
Ru64(n, wide) == [ty |-> "u64", n |-> n, wide |-> wide]

\* The variants of ElementKind in declaration order, with their serde names
\* and the literal type T of their payload.
Variants == << [name |-> "UUID",    tag |-> "cds.UUID",    T |-> "String"],
               [name |-> "Boolean", tag |-> "cds.Boolean", T |-> "bool"],
               [name |-> "Integer", tag |-> "cds.Integer", T |-> "i64"],
               [name |-> "String",  tag |-> "cds.String",  T |-> "String"] >>

\* The literal decoders serde provides for String, bool, i64 and u64.
deserialize_T(T, v) ==
    CASE T = "String" ->
           IF v.t = "String" THEN Ok(RString(v.s))
           ELSE Fail("invalid type, expected a string")
      [] T = "bool" ->
           IF v.t = "Bool" THEN Ok(Rbool(v.b))
           ELSE Fail("invalid type, expected a boolean")
      [] T = "i64" ->
           IF v.t # "Number" \/ v.N = "Float" THEN Fail("invalid type, expected i64")
           ELSE IF v.wide THEN Fail("invalid value, expected i64")
           ELSE Ok(Ri64(v.n))
      [] T = "u64" ->
           IF v.t # "Number" \/ v.N = "Float" THEN Fail("invalid type, expected u64")
           ELSE IF v.N = "NegInt" THEN Fail("invalid value, expected u64")
           ELSE Ok(Ru64(v.n, v.wide))

\* enum Default<T> { #[serde(rename = "val")] Val(T) }: externally tagged, so
\* a map with the single key "val"; a bare string names a unit variant, which
\* Val is not.
deserialize_Default(T, v) ==
    CASE v.t = "Object" ->
           IF Len(v.m) # 1 THEN Fail("invalid value: map, expected map with a single key")
           ELSE IF v.m[1].k # "val" THEN Fail("unknown variant, expected val")
           ELSE LET r == deserialize_T(T, v.m[1].v)
                IN  IF r.ok THEN Ok(Val(r.val)) ELSE r
      [] v.t = "String" ->
           IF v.s = "val" THEN Fail("invalid type: unit variant, expected newtype variant")
           ELSE Fail("unknown variant, expected val")
      [] OTHER -> Fail("invalid type, expected string or map")

\* Mutant: an Option that does not take null for None.
deserialize_Option_Default_Strict(T, v) ==
    LET r == deserialize_Default(T, v)
    IN  IF r.ok THEN Ok(Some(r.val)) ELSE r

\* Option<X>: null is None, anything else is Some(X decoded from it).
deserialize_Option_Default(T, v) ==
    IF v.t = "Null" THEN Ok(None)
    ELSE LET r == deserialize_Default(T, v)
         IN  IF r.ok THEN Ok(Some(r.val)) ELSE r

deserialize_Option_u64(v) ==
    IF v.t = "Null" THEN Ok(None)
    ELSE LET r == deserialize_T("u64", v)
         IN  IF r.ok THEN Ok(Some(r.val)) ELSE r

\* A field of a derived struct read from a map: a missing Option field is
\* None, unknown fields are ignored.
field_default(T, m) ==
    IF HasKey(m, "default") THEN deserialize_Option_Default(T, Lookup(m, "default"))
    ELSE Ok(None)

field_length(m) ==
    IF HasKey(m, "length") THEN deserialize_Option_u64(Lookup(m, "length"))
    ELSE Ok(None)

KeyPos(m, k) == CHOOSE n \in 1..Len(m) : m[n].k = k

\* struct PrimitiveKind<T> { default } read from the fields of a map.
PrimitiveKind_map(name, T, m) ==
    LET d == field_default(T, m)
    IN  IF d.ok THEN Ok([type |-> name, default |-> d.val]) ELSE d

\* struct PrimitiveKindString { default, length } read from the fields of a
\* map; the fields are visited in the map's order, so of two bad fields the
\* earlier one is reported.
PrimitiveKindString_map(name, m) ==
    LET d == field_default("String", m)
        l == field_length(m)
    IN  IF d.ok /\ l.ok THEN Ok([type |-> name, default |-> d.val, length |-> l.val])
        ELSE IF ~d.ok /\ (l.ok \/ KeyPos(m, "default") < KeyPos(m, "length")) THEN d
        ELSE l

\* The same structs read from a sequence: one element per field, in order.
PrimitiveKind_seq(name, T, s) ==
    IF Len(s) = 0 THEN Fail("invalid length 0, expected struct PrimitiveKind with 1 element")
    ELSE LET d == deserialize_Option_Default(T, s[1])
         IN  IF ~d.ok THEN d
             ELSE IF Len(s) > 1 THEN Fail("invalid length, expected 1 element in sequence")
             ELSE Ok([type |-> name, default |-> d.val])

PrimitiveKindString_seq(name, s) ==
    IF Len(s) = 0
    THEN Fail("invalid length 0, expected struct PrimitiveKindString with 2 elements")
    ELSE LET d == deserialize_Option_Default("String", s[1])
         IN  IF ~d.ok THEN d
             ELSE IF Len(s) = 1
             THEN Fail("invalid length 1, expected struct PrimitiveKindString with 2 elements")
             ELSE LET l == deserialize_Option_u64(s[2])
                  IN  IF ~l.ok THEN l
                      ELSE IF Len(s) > 2
                      THEN Fail("invalid length, expected 2 elements in sequence")
                      ELSE Ok([type |-> name, default |-> d.val, length |-> l.val])

\* The tag of the internally tagged enum: a variant identifier, which the
\* derived visitor accepts as the variant's serde name or as its index.
deserialize_tag(v) ==
    CASE v.t = "String" ->
           IF \E n \in 1..Len(Variants) : Variants[n].tag = v.s
           THEN Ok([variant |-> CHOOSE n \in 1..Len(Variants) : Variants[n].tag = v.s])
           ELSE Fail("unknown variant, expected one of cds.UUID, cds.Boolean, cds.Integer, cds.String")
      [] v.t = "Number" /\ v.N = "PosInt" ->
           IF ~v.wide /\ v.n < Len(Variants)
           THEN Ok([variant |-> v.n + 1])
           ELSE Fail("invalid value: integer, expected variant index 0 <= i < 4")
      [] OTHER -> Fail("invalid type, expected variant identifier")

\* #[serde(tag = "type")] enum ElementKind: the value is a map holding the
\* tag under "type" beside the variant's fields, or a sequence whose first
\* element is the tag and whose remaining elements are the variant's fields.
DeserializeElementKind(v) ==
    CASE v.t = "Object" ->
           IF ~HasKey(v.m, "type") THEN Fail("missing field type")
           ELSE LET tg == deserialize_tag(Lookup(v.m, "type"))
                IN  IF ~tg.ok THEN tg
                    ELSE LET vr == Variants[tg.val.variant]
                         IN  IF vr.name = "String"
                             THEN PrimitiveKindString_map(vr.name, v.m)
                             ELSE PrimitiveKind_map(vr.name, vr.T, v.m)
      [] v.t = "Array" ->
           IF Len(v.a) = 0 THEN Fail("missing field type")
           ELSE LET tg == deserialize_tag(v.a[1])
                IN  IF ~tg.ok THEN tg
                    ELSE LET vr == Variants[tg.val.variant]
                         IN  IF vr.name = "String"
                             THEN PrimitiveKindString_seq(vr.name, Tail(v.a))
                             ELSE PrimitiveKind_seq(vr.name, vr.T, Tail(v.a))
      [] OTHER -> Fail("invalid type, expected internally tagged enum ElementKind")

(***************************************************************************)
(* The model values of entities.rs.                                        *)
(***************************************************************************)
Service(name) == [kind |-> "Service", name |-> name]
Entity(name, els) == [kind |-> "Entity", name |-> name, elements |-> els]
Element(name, key, kind) == [name |-> name, key |-> key, kind |-> kind]

\* Result<Definitions, DeserializationError>.
NoResult == [Running |-> TRUE]
ROk(defs) == [Ok |-> [definitions |-> defs]]
RErr(description) == [Err |-> [description |-> description]]
IsOk(r) == DOMAIN r = {"Ok"}
IsErr(r) == DOMAIN r = {"Err"}

\* impl From<serde_json::error::Error> for DeserializationError.
from_serde_error(msg) == RErr(msg)

(***************************************************************************)
(* Definitions::from_str, one action per statement of its body.  A step    *)
(* that fails returns at once: it sets result and moves pc to "done".      *)
(***************************************************************************)

\* let csn_json: Value = serde_json::from_str(csn)?;
ParseStep(text) ==
    IF text.syntax # ""
    THEN [pc |-> "done", csn_json |-> JNull, result |-> from_serde_error(text.syntax)]
    ELSE [pc |-> "definitions", csn_json |-> text.json, result |-> NoResult]

ParseJson ==
    /\ pc = "start"
    /\ LET st == ParseStep(csn)
       IN  /\ pc' = st.pc
           /\ csn_json' = st.csn_json
           /\ result' = st.result
    /\ UNCHANGED <<csn, map, i, inner, j, elements, definitions, sqlVars>>

\* Mutant: a missing definitions object read as an empty one.
DefinitionsStep_Empty(doc) ==
    LET d == Index(doc, "definitions")
    IN  IF is_object(d)
        THEN [pc |-> "loop", map |-> d.m, result |-> NoResult]
        ELSE [pc |-> "loop", map |-> <<>>, result |-> NoResult]

\* let map = csn_json["definitions"].as_object().ok_or(...)?;
DefinitionsStep(doc) ==
    LET d == Index(doc, "definitions")
    IN  IF is_object(d)
        THEN [pc |-> "loop", map |-> d.m, result |-> NoResult]
        ELSE [pc |-> "done", map |-> <<>>, result |-> RErr("Cannot find definitions")]

GetDefinitions ==
    /\ pc = "definitions"
    /\ LET st == DefinitionsStep(csn_json)
       IN  /\ pc' = st.pc
           /\ map' = st.map
           /\ result' = st.result
    /\ i' = 1
    /\ UNCHANGED <<csn, csn_json, inner, j, elements, definitions, sqlVars>>

\* Mutant: an entry of another kind is emitted as a service.
EntryStep_NoSkip(key, val, defs) ==
    IF eq_str(Index(val, "kind"), "entity")
    THEN IF is_object(Index(val, "elements"))
         THEN [pc |-> "elements", next |-> FALSE, definitions |-> defs,
               inner |-> Index(val, "elements").m, result |-> NoResult]
         ELSE [pc |-> "done", next |-> FALSE, definitions |-> defs,
               inner |-> <<>>, result |-> RErr("Cannot find elements")]
    ELSE [pc |-> "loop", next |-> TRUE, definitions |-> Append(defs, Service(key)),
          inner |-> <<>>, result |-> NoResult]

\* Mutant: an entity without elements ends the loop and what was built so
\* far is returned.
EntryStep_Partial(key, val, defs) ==
    IF eq_str(Index(val, "kind"), "service")
    THEN [pc |-> "loop", next |-> TRUE, definitions |-> Append(defs, Service(key)),
          inner |-> <<>>, result |-> NoResult]
    ELSE IF eq_str(Index(val, "kind"), "entity")
    THEN IF is_object(Index(val, "elements"))
         THEN [pc |-> "elements", next |-> FALSE, definitions |-> defs,
               inner |-> Index(val, "elements").m, result |-> NoResult]
         ELSE [pc |-> "done", next |-> FALSE, definitions |-> defs,
               inner |-> <<>>, result |-> ROk(defs)]
    ELSE [pc |-> "loop", next |-> TRUE, definitions |-> defs,
          inner |-> <<>>, result |-> NoResult]

\* Mutant: an entity without elements is built with no elements.
EntryStep_EmptyEntity(key, val, defs) ==
    IF eq_str(Index(val, "kind"), "service")
    THEN [pc |-> "loop", next |-> TRUE, definitions |-> Append(defs, Service(key)),
          inner |-> <<>>, result |-> NoResult]
    ELSE IF eq_str(Index(val, "kind"), "entity")
    THEN IF is_object(Index(val, "elements"))
         THEN [pc |-> "elements", next |-> FALSE, definitions |-> defs,
               inner |-> Index(val, "elements").m, result |-> NoResult]
         ELSE [pc |-> "elements", next |-> FALSE, definitions |-> defs,
               inner |-> <<>>, result |-> NoResult]
    ELSE [pc |-> "loop", next |-> TRUE, definitions |-> defs,
          inner |-> <<>>, result |-> NoResult]

\* Mutant: every entry that is not a service is read as an entity.
EntryStep_Strict(key, val, defs) ==
    IF eq_str(Index(val, "kind"), "service")
    THEN [pc |-> "loop", next |-> TRUE, definitions |-> Append(defs, Service(key)),
          inner |-> <<>>, result |-> NoResult]
    ELSE IF is_object(Index(val, "elements"))
         THEN [pc |-> "elements", next |-> FALSE, definitions |-> defs,
               inner |-> Index(val, "elements").m, result |-> NoResult]
         ELSE [pc |-> "done", next |-> FALSE, definitions |-> defs,
               inner |-> <<>>, result |-> RErr("Cannot find elements")]

\* One iteration of "for (key, val) in map" up to the inner loop: a service
\* is pushed, an entity opens its elements, anything else is passed over.
EntryStep(key, val, defs) ==
    IF eq_str(Index(val, "kind"), "service")
    THEN [pc |-> "loop", next |-> TRUE, definitions |-> Append(defs, Service(key)),
          inner |-> <<>>, result |-> NoResult]
    ELSE IF eq_str(Index(val, "kind"), "entity")
    THEN IF is_object(Index(val, "elements"))
         THEN [pc |-> "elements", next |-> FALSE, definitions |-> defs,
               inner |-> Index(val, "elements").m, result |-> NoResult]
         ELSE [pc |-> "done", next |-> FALSE, definitions |-> defs,
               inner |-> <<>>, result |-> RErr("Cannot find elements")]
    ELSE [pc |-> "loop", next |-> TRUE, definitions |-> defs,
          inner |-> <<>>, result |-> NoResult]

ForEntry ==
    /\ pc = "loop"
    /\ i <= Len(map)
    /\ LET st == EntryStep(map[i].k, map[i].v, definitions)
       IN  /\ pc' = st.pc
           /\ definitions' = st.definitions
           /\ inner' = st.inner
           /\ result' = st.result
           /\ i' = IF st.next THEN i + 1 ELSE i
    /\ j' = 1
    /\ elements' = <<>>
    /\ UNCHANGED <<csn, csn_json, map, sqlVars>>

\* Mutant: an element that does not decode is left out and the loop goes on.
ElementStep_Skip(el_key, el_val, els) ==
    LET element_kind == DeserializeElementKind(el_val)
    IN  IF ~element_kind.ok
        THEN [pc |-> "elements", elements |-> els, result |-> NoResult]
        ELSE [pc |-> "elements",
              elements |-> Append(els, Element(el_key,
                                               eq_bool(Index(el_val, "key"), TRUE),
                                               element_kind.val)),
              result |-> NoResult]

\* Mutant: the key flag is the truthiness of the "key" field.
ElementStep_Truthy(el_key, el_val, els) ==
    LET element_kind == DeserializeElementKind(el_val)
    IN  IF ~element_kind.ok
        THEN [pc |-> "done", elements |-> els, result |-> from_serde_error(element_kind.err)]
        ELSE [pc |-> "elements",
              elements |-> Append(els, Element(el_key,
                                               /\ Index(el_val, "key") # JNull
                                               /\ Index(el_val, "key") # JBool(FALSE),
                                               element_kind.val)),
              result |-> NoResult]

\* One iteration of the inner loop: decode the element's kind from its JSON
\* text, read its key flag, push the Element.
ElementStep(el_key, el_val, els) ==
    LET element_kind == DeserializeElementKind(el_val)
    IN  IF ~element_kind.ok
        THEN [pc |-> "done", elements |-> els, result |-> from_serde_error(element_kind.err)]
        ELSE [pc |-> "elements",
              elements |-> Append(els, Element(el_key,
                                               eq_bool(Index(el_val, "key"), TRUE),
                                               element_kind.val)),
              result |-> NoResult]

ForElement ==
    /\ pc = "elements"
    /\ j <= Len(inner)
    /\ LET st == ElementStep(inner[j].k, inner[j].v, elements)
       IN  /\ pc' = st.pc
           /\ elements' = st.elements
           /\ result' = st.result
           /\ j' = IF st.pc = "elements" THEN j + 1 ELSE j
    /\ UNCHANGED <<csn, csn_json, map, i, inner, definitions, sqlVars>>

\* definitions.push(Definition::Entity(Entity { name: key.clone(), elements }))
PushEntity(key, els, defs) == Append(defs, Entity(key, els))

EndEntity ==
    /\ pc = "elements"
    /\ j > Len(inner)
    /\ definitions' = PushEntity(map[i].k, elements, definitions)
    /\ i' = i + 1
    /\ pc' = "loop"
    /\ UNCHANGED <<csn, csn_json, map, inner, j, elements, result, sqlVars>>

\* Ok(Definitions { definitions })
Return ==
    /\ pc = "loop"
    /\ i > Len(map)
    /\ result' = ROk(definitions)
    /\ pc' = "done"
    /\ UNCHANGED <<csn, csn_json, map, i, inner, j, elements, definitions, sqlVars>>

(***************************************************************************)
(* main.rs: the SELECT builder and its rendering.                          *)
(***************************************************************************)
NoSelect == [None |-> TRUE]
NoSql == [None |-> TRUE]

\* SELECT::from
SELECT_from(entity) == [from |-> entity, columns |-> <<>>, filter |-> <<>>]

\* Mutant: columns replaces the list instead of extending it.
SELECT_columns_Replace(self, cols) == [self EXCEPT !.columns = cols]

\* SELECT::columns: self.columns.extend(cols)
SELECT_columns(self, cols) == [self EXCEPT !.columns = @ \o cols]

\* SELECT::filter: self.filter.extend(filter)
SELECT_filter(self, toks) == [self EXCEPT !.filter = @ \o toks]

\* [String]::join
RECURSIVE join(_, _)
join(strs, sep) ==
    IF Len(strs) = 0 THEN ""
    ELSE IF Len(strs) = 1 THEN strs[1]
    ELSE strs[1] \o sep \o join(Tail(strs), sep)

\* impl CQN for SELECT: to_sql
to_sql(self) ==
    LET res == IF Len(self.columns) > 0
               THEN "SELECT " \o join(self.columns, ",") \o " FROM " \o self.from
               ELSE "SELECT * FROM " \o self.from
    IN  IF Len(self.filter) > 0
        THEN res \o ("\n  WHERE " \o join(self.filter, " "))
        ELSE res

Call(op, args) == [op |-> op, args |-> args]

From(entity) ==
    /\ select = NoSelect
    /\ select' = SELECT_from(entity)
    /\ calls' = <<Call("from", <<entity>>)>>
    /\ UNCHANGED <<sql, sqlCalls, parseVars>>

Columns(cols) ==
    /\ select # NoSelect
    /\ Len(calls) <= MaxCalls
    /\ select' = SELECT_columns(select, cols)
    /\ calls' = Append(calls, Call("columns", cols))
    /\ UNCHANGED <<sql, sqlCalls, parseVars>>

Filter(toks) ==
    /\ select # NoSelect
    /\ Len(calls) <= MaxCalls
    /\ select' = SELECT_filter(select, toks)
    /\ calls' = Append(calls, Call("filter", toks))
    /\ UNCHANGED <<sql, sqlCalls, parseVars>>

ToSql ==
    /\ select # NoSelect
    /\ sql' = [text |-> to_sql(select)]
    /\ sqlCalls' = calls
    /\ UNCHANGED <<select, calls, parseVars>>

(***************************************************************************)
(* Inputs.                                                                 *)
(***************************************************************************)
\* The sequences over S of length at most n.
SeqsUpTo(S, n) == UNION {[1..k -> S] : k \in 0..n}

\* The object whose keys are those of names at the increasing positions ks
\* and whose values are those of f.
KeySeqs(names, n) ==
    {ks \in SeqsUpTo(1..Len(names), n) :
        \A a, b \in 1..Len(ks) : a < b => ks[a] < ks[b]}
MakeMap(names, ks, f) == [x \in 1..Len(ks) |-> Entry(names[ks[x]], f[x])]

Sources == {"example_entity"}
ArgLists == {<<>>, <<"col1">>, <<"col1", "col2">>, <<"(", "a", ">", "2", ")">>}

DefNames == <<"TestService", "TestService.TestEntity", "TestType">>
ElNames == <<"ID", "age", "name">>

\* Elements as they stand in a definitions document.
ElUuidKey == JObject(<<Entry("key", JBool(TRUE)), Entry("type", JString("cds.UUID"))>>)
ElStringDefault ==
    JObject(<<Entry("default", JObject(<<Entry("val", JString("myDefaultName"))>>)),
              Entry("type", JString("cds.String"))>>)
ElUnknownTag == JObject(<<Entry("type", JString("cds.Date"))>>)
ElNoType == JObject(<<Entry("key", JBool(TRUE))>>)
ElBadDefault ==
    JObject(<<Entry("default", JString("zero")), Entry("type", JString("cds.Integer"))>>)
ElNotObject == JString("cds.UUID")
DocElems == {ElUuidKey, ElStringDefault, ElUnknownTag, ElNoType, ElBadDefault, ElNotObject}

\* Elements field by field: every combination of a "type", a "key", a
\* "default" and a "length" field, each absent or holding one of the values
\* below, as an object (fields in key order) and as an array.
Absent(k, vals) == {<<>>} \cup {<<Entry(k, v)>> : v \in vals}
TypeVals ==
    {JString("cds.UUID"), JString("cds.Boolean"), JString("cds.Integer"),
     JString("cds.String"), JString("cds.Date"), JString("cds.uuid"), JString("UUID"),
     JPosInt(0), JPosInt(1), JPosInt(2), JPosInt(3), JPosInt(4), JPosIntWide,
     JNegInt(-1), JFloat(0), JNull, JBool(TRUE), JArray(<<JString("cds.UUID")>>)}
KeyVals ==
    {JBool(TRUE), JBool(FALSE), JNull, JString("true"), JPosInt(1), JObject(<<>>),
     JObject(<<Entry("key", JBool(TRUE))>>), JArray(<<JBool(TRUE)>>)}
ValOf(x) == JObject(<<Entry("val", x)>>)
DefaultVals ==
    {JNull, JString("x"), JString("val"), JBool(TRUE), JPosInt(1), JArray(<<JString("x")>>),
     JObject(<<>>), JObject(<<Entry("fn", JString("x"))>>),
     JObject(<<Entry("val", JString("x")), Entry("xpr", JString("x"))>>),
     ValOf(JString("x")), ValOf(JString("")), ValOf(JBool(TRUE)), ValOf(JBool(FALSE)),
     ValOf(JPosInt(1)), ValOf(JNegInt(-1)), ValOf(JPosIntWide), ValOf(JFloat(1)),
     ValOf(JNull), ValOf(ValOf(JString("x")))}
LengthVals ==
    {JPosInt(255), JPosInt(0), JPosIntWide, JNegInt(-1), JFloat(255), JNull, JString("255")}

ElScalars == {JNull, JBool(TRUE), JPosInt(0), JString("cds.UUID")}
ElArrays ==
    {JArray(<<>>)}
    \cup {JArray(<<t>>) : t \in TypeVals}
    \cup {JArray(<<t, d>>) : t \in TypeVals, d \in DefaultVals}
    \cup {JArray(<<t, d, l>>) : t \in TypeVals, d \in DefaultVals, l \in LengthVals}

\* Entries of the definitions object.
DefService == JObject(<<Entry("@source", JString("srv/service.cds")),
                        Entry("kind", JString("service"))>>)
DefServiceOdd ==
    JObject(<<Entry("elements", JObject(<<Entry("ID", ElUnknownTag)>>)),
              Entry("kind", JString("service"))>>)
DefType ==
    JObject(<<Entry("elements", JObject(<<Entry("ID", ElNoType)>>)),
              Entry("kind", JString("type"))>>)
DefNoKind == JObject(<<Entry("elements", JString("none"))>>)
DefNotObject == JString("entity")
DefKindNotString == JObject(<<Entry("kind", JArray(<<JString("entity")>>))>>)
DefEntityNoElements == JObject(<<Entry("kind", JString("entity"))>>)
DefEntityElementsArray ==
    JObject(<<Entry("elements", JArray(<<ElUuidKey>>)), Entry("kind", JString("entity"))>>)
DefEntity(els) == JObject(<<Entry("elements", JObject(els)), Entry("kind", JString("entity"))>>)

\* The entries that hold c elements in all: for c = 0 the entries without an
\* elements object of an entity and the entity with an empty one, for c > 0
\* the entities with c elements.
DefValsN ==
    [c \in 0..MaxElems |->
    IF c = 0
    THEN {DefService, DefServiceOdd, DefType, DefNoKind, DefNotObject, DefKindNotString,
          DefEntityNoElements, DefEntityElementsArray, DefEntity(<<>>)}
    ELSE {DefEntity(MakeMap(ElNames, ks, f)) :
             ks \in {q \in KeySeqs(ElNames, c) : Len(q) = c}, f \in [1..c -> DocElems]}]

\* Documents.
Meta == JObject(<<Entry("creator", JString("CDS Compiler v1.25.0"))>>)
DocWith(defs) == JObject(<<Entry("$version", JString("1.0")),
                           Entry("definitions", defs),
                           Entry("meta", Meta)>>)
DocNoDefinitions == JObject(<<Entry("$version", JString("1.0")), Entry("meta", Meta)>>)

\* Documents without a definitions object.
DocsNoMap ==
    {DocNoDefinitions, JArray(<<JString("definitions")>>), JString("definitions"), JNull,
     DocWith(JNull), DocWith(JArray(<<DefService>>)), DocWith(JString("entity"))}

\* The entity of a document that holds one element under test, alone or next
\* to well-formed elements, between a service and a passed-over entry.
Frames(el) ==
    { <<Entry("age", el)>>,
      <<Entry("ID", ElUuidKey), Entry("age", el)>>,
      <<Entry("age", el), Entry("name", ElStringDefault)>> }
DefServiceHolder == JObject(<<Entry("kind", JString("service"))>>)
FrameDoc(els) ==
    DocWith(JObject(<<Entry("TestService", DefServiceHolder),
                      Entry("TestService.TestEntity",
                            JObject(<<Entry("elements", JObject(els)),
                                      Entry("kind", JString("entity"))>>)),
                      Entry("TestType", JObject(<<Entry("kind", JString("type"))>>))>>))

\* Texts: a text serde_json reads as a document, or one it rejects with a
\* message; json is then what the text would hold were it well-formed.
Text(doc) == [syntax |-> "", json |-> doc]
BadText(msg, doc) == [syntax |-> msg, json |-> doc]
SyntaxErrors == {"invalid number at line 1 column 11"}
BadDocs ==
    {DocNoDefinitions,
     DocWith(JObject(<<Entry("TestService", DefService),
                       Entry("TestService.TestEntity", DefEntityNoElements)>>)),
     DocWith(JObject(<<Entry("TestService", DefService),
                       Entry("TestService.TestEntity",
                             DefEntity(<<Entry("ID", ElUuidKey)>>))>>))}

(***************************************************************************)
(* Specifications.                                                         *)
(***************************************************************************)
InitParseVars(text) ==
    /\ csn = text
    /\ pc = "start"
    /\ csn_json = JNull
    /\ map = <<>>
    /\ i = 1
    /\ inner = <<>>
    /\ j = 1
    /\ elements = <<>>
    /\ definitions = <<>>
    /\ result = NoResult

InitSqlVars ==
    /\ select = NoSelect
    /\ calls = <<>>
    /\ sql = NoSql
    /\ sqlCalls = <<>>

\* Definitions::from_str on a text: a document with a definitions object of
\* at most MaxDefs entries that hold at most MaxElems elements in all, a
\* document without a definitions object, or a malformed text.
RECURSIVE InitEntries(_, _, _)
InitEntries(ks, vals, budget) ==
    IF Len(vals) = Len(ks)
    THEN InitParseVars(Text(DocWith(JObject(
             [x \in 1..Len(ks) |-> Entry(DefNames[ks[x]], vals[x])]))))
    ELSE \E c \in 0..budget : \E v \in DefValsN[c] :
            InitEntries(ks, Append(vals, v), budget - c)

InitText ==
    \/ \E ks \in KeySeqs(DefNames, MaxDefs) : InitEntries(ks, <<>>, MaxElems)
    \/ \E d \in DocsNoMap : InitParseVars(Text(d))
    \/ \E e \in SyntaxErrors : \E d \in BadDocs : InitParseVars(BadText(e, d))

Init == InitText /\ InitSqlVars

Next ==
    \/ ParseJson
    \/ GetDefinitions
    \/ ForEntry
    \/ ForElement
    \/ EndEntity
    \/ Return

Spec == Init /\ [][Next]_vars

\* Definitions::from_str on a document holding one element under test.
InitElement ==
    \/ \E d \in Absent("default", DefaultVals), k \in Absent("key", KeyVals),
          l \in Absent("length", LengthVals), t \in Absent("type", TypeVals) :
          \E els \in Frames(JObject(d \o k \o l \o t)) :
             InitParseVars(Text(FrameDoc(els)))
    \/ \E el \in ElScalars \cup ElArrays : \E els \in Frames(el) :
          InitParseVars(Text(FrameDoc(els)))

InitEl == InitElement /\ InitSqlVars

SpecEl == InitEl /\ [][Next]_vars

\* The SELECT builder.
InitSql == InitParseVars(Text(DocNoDefinitions)) /\ InitSqlVars

NextSql ==
    \/ \E entity \in Sources : From(entity)
    \/ \E cols \in ArgLists : Columns(cols)
    \/ \E toks \in ArgLists : Filter(toks)
    \/ ToSql

SpecSql == InitSql /\ [][NextSql]_vars

(***************************************************************************)
(* The source document, read independently of from_str: what the text      *)
(* holds, by which the results are judged.                                 *)
(***************************************************************************)
Done == pc = "done"

\* Object v has a field k / a field k holding exactly x / an object under k.
HasField(v, k) == v.t = "Object" /\ \E n \in 1..Len(v.m) : v.m[n].k = k
Member(v, k, x) == v.t = "Object" /\ \E n \in 1..Len(v.m) : v.m[n].k = k /\ v.m[n].v = x
FieldIsObject(v, k) ==
    v.t = "Object" /\ \E n \in 1..Len(v.m) : v.m[n].k = k /\ v.m[n].v.t = "Object"
FieldOf(v, k) == v.m[CHOOSE n \in 1..Len(v.m) : v.m[n].k = k].v

WellFormed == csn.syntax = ""
HasDefinitions == WellFormed /\ FieldIsObject(csn.json, "definitions")
Defs == FieldOf(csn.json, "definitions").m
ElementsOf(v) == FieldOf(v, "elements").m

IsServiceEntry(v) == Member(v, "kind", JString("service"))
IsEntityEntry(v) == Member(v, "kind", JString("entity"))
Emitted(v) == IsServiceEntry(v) \/ IsEntityEntry(v)

\* The number of service and entity entries among the first n entries: the
\* position in the output of the n-th entry, if it is one of them.
Rank(n) == Cardinality({k \in 1..n : Emitted(Defs[k].v)})

\* An entity entry that cannot be built: no elements object, or an element
\* that does not decode.
BadElement(el) == ~DeserializeElementKind(el).ok
EntityFault(v) ==
    /\ IsEntityEntry(v)
    /\ \/ ~FieldIsObject(v, "elements")
       \/ \E e \in 1..Len(ElementsOf(v)) : BadElement(ElementsOf(v)[e].v)
HasFault ==
    \/ ~WellFormed
    \/ ~HasDefinitions
    \/ \E n \in 1..Len(Defs) : EntityFault(Defs[n].v)

Out == result.Ok.definitions

(***************************************************************************)
(* Claims about Definitions::from_str.                                     *)
(***************************************************************************)

\* C1: when from_str succeeds, the output holds exactly one Definition per
\* entry of "definitions" whose kind is exactly "service" or "entity", a
\* Service for the former and an Entity for the latter, named by the entry's
\* key, in the map's enumeration order; other entries contribute nothing.
C1_OneDefinitionPerEntry ==
    Done /\ IsOk(result) =>
        /\ HasDefinitions
        /\ Len(Out) = Rank(Len(Defs))
        /\ \A n \in 1..Len(Defs) :
              Emitted(Defs[n].v) =>
                 /\ Rank(n) <= Len(Out)
                 /\ Out[Rank(n)].name = Defs[n].k
                 /\ Out[Rank(n)].kind =
                       IF IsServiceEntry(Defs[n].v) THEN "Service" ELSE "Entity"

C1_Witness ==
    /\ Done /\ IsOk(result) /\ HasDefinitions
    /\ Len(Defs) = 2 /\ Len(Out) = 1
    /\ ~Emitted(Defs[1].v) /\ IsEntityEntry(Defs[2].v)
    /\ Out[1] = Entity(Defs[2].k, Out[1].elements)

\* C2: from_str is all-or-nothing: a text with any fault (syntax, missing
\* definitions, an entity without elements, an element that does not decode)
\* yields one error and no definitions, whatever was built before the fault;
\* a text without fault yields every service and entity, each entity with all
\* its elements.
C2_AllOrNothing ==
    Done =>
        IF HasFault
        THEN IsErr(result) /\ DOMAIN result.Err = {"description"}
        ELSE /\ IsOk(result)
             /\ Len(Out) = Rank(Len(Defs))
             /\ \A n \in 1..Len(Defs) :
                   IsEntityEntry(Defs[n].v) =>
                      /\ Rank(n) <= Len(Out)
                      /\ Out[Rank(n)].kind = "Entity"
                      /\ Len(Out[Rank(n)].elements) = Len(ElementsOf(Defs[n].v))

C2_Witness ==
    /\ Done /\ IsErr(result)
    /\ Len(definitions) > 0
    /\ \E n \in 1..Len(definitions) : definitions[n].kind = "Entity"

\* C3: a well-formed document whose top level has no "definitions" field, or
\* one that is not an object, fails with exactly "Cannot find definitions".
C3_CannotFindDefinitions ==
    Done /\ WellFormed /\ ~FieldIsObject(csn.json, "definitions") =>
        result = RErr("Cannot find definitions")

C3_Witness ==
    /\ Done /\ WellFormed
    /\ HasField(csn.json, "definitions") /\ HasField(csn.json, "meta")
    /\ ~FieldIsObject(csn.json, "definitions")
    /\ result = RErr("Cannot find definitions")

\* An entity entry with an elements object that holds an element which does
\* not decode.
ElementFault(v) ==
    /\ IsEntityEntry(v)
    /\ FieldIsObject(v, "elements")
    /\ \E e \in 1..Len(ElementsOf(v)) : BadElement(ElementsOf(v)[e].v)

C9_OnlyEntitiesFail ==
    Done /\ HasDefinitions =>
        /\ IsErr(result) => i \in 1..Len(Defs) /\ IsEntityEntry(Defs[i].v)
        /\ (\A n \in 1..Len(Defs) : ~EntityFault(Defs[n].v)) =>
              /\ IsOk(result)
              /\ \A n \in 1..Len(Defs) :
                    IsServiceEntry(Defs[n].v) =>
                       Rank(n) <= Len(Out) /\ Out[Rank(n)] = Service(Defs[n].k)

C9_Witness ==
    /\ Done /\ IsOk(result) /\ HasDefinitions
    /\ \E n \in 1..Len(Defs) : Defs[n].v = DefServiceOdd
    /\ \E n \in 1..Len(Defs) : Defs[n].v \in {DefType, DefNoKind, DefNotObject}

\* C10: the error returned is the first one met in processing order: a
\* syntax error, then "Cannot find definitions", then the entries in
\* enumeration order, within an entity the missing elements object before
\* any element and the elements in enumeration order; the loops stop at the
\* failing entry and element, so nothing after them is examined.
FirstFaultyEntry ==
    CHOOSE n \in 1..Len(Defs) :
        EntityFault(Defs[n].v) /\ \A k \in 1..(n - 1) : ~EntityFault(Defs[k].v)
FirstBadElement(els) ==
    CHOOSE e \in 1..Len(els) :
        BadElement(els[e].v) /\ \A k \in 1..(e - 1) : ~BadElement(els[k].v)
C10_FirstErrorWins ==
    Done =>
        IF ~WellFormed THEN result = RErr(csn.syntax)
        ELSE IF ~HasDefinitions THEN result = RErr("Cannot find definitions")
        ELSE IF \E n \in 1..Len(Defs) : EntityFault(Defs[n].v)
        THEN LET n == FirstFaultyEntry
                 v == Defs[n].v
             IN  /\ i = n
                 /\ IF ~FieldIsObject(v, "elements")
                    THEN result = RErr("Cannot find elements")
                    ELSE LET e == FirstBadElement(ElementsOf(v))
                         IN  /\ j = e
                             /\ Len(elements) = e - 1
                             /\ result =
                                  RErr(DeserializeElementKind(ElementsOf(v)[e].v).err)
        ELSE IsOk(result)

C10_Witness ==
    /\ Done /\ HasDefinitions /\ IsErr(result)
    /\ Len(Defs) = 2 /\ i = 1 /\ j = 1
    /\ EntityFault(Defs[2].v)
    /\ Len(inner) = 2
    /\ BadElement(inner[2].v)
    /\ DeserializeElementKind(inner[2].v).err # result.Err.description
    /\ result.Err.description # "Cannot find elements"
    /\ ~FieldIsObject(Defs[2].v, "elements")

(***************************************************************************)
(* Claims about the decoding of one element.                               *)
(***************************************************************************)
KnownTags == {"cds.UUID", "cds.Boolean", "cds.Integer", "cds.String"}

\* The element is an object whose "type" field is one of the known tags.
HasTag(el, tag) == Member(el, "type", JString(tag))
HasKnownTag(el) == \E tag \in KnownTags : HasTag(el, tag)

\* The elements of the document: entry n of the definitions is an entity
\* with an elements object, and e a position in it.
ElementAt(n, e) == ElementsOf(Defs[n].v)[e].v
ElementPlaces ==
    UNION {{<<n, e>> : e \in 1..Len(ElementsOf(Defs[n].v))} :
           n \in {k \in 1..Len(Defs) :
                     IsEntityEntry(Defs[k].v) /\ FieldIsObject(Defs[k].v, "elements")}}

\* The Element decoded from place p, when from_str succeeded.
Decoded(p) == Out[Rank(p[1])].elements[p[2]]
HasDecoded(p) ==
    /\ IsOk(result)
    /\ Rank(p[1]) \in 1..Len(Out)
    /\ Out[Rank(p[1])].kind = "Entity"
    /\ p[2] <= Len(Out[Rank(p[1])].elements)

\* from_str failed at the element of place p.
FailedAt(p) == IsErr(result) /\ i = p[1] /\ pc = "done" /\ j = p[2] /\ inner # <<>>

StripKey(el) ==
    IF el.t = "Object" THEN JObject(SelectSeq(el.m, LAMBDA en : en.k # "key")) ELSE el
C6_KeyOnlyIfTrue ==
    Done /\ HasDefinitions =>
        \A p \in ElementPlaces :
           /\ IsOk(result) =>
                 /\ HasDecoded(p)
                 /\ Decoded(p).key = Member(ElementAt(p[1], p[2]), "key", JBool(TRUE))
           /\ FailedAt(p) => BadElement(StripKey(ElementAt(p[1], p[2])))

C6_Witness ==
    /\ Done /\ IsOk(result) /\ HasDefinitions
    /\ \E p \in ElementPlaces :
          /\ Member(ElementAt(p[1], p[2]), "key", JString("true"))
          /\ Decoded(p).key = FALSE
    /\ \E p \in ElementPlaces :
          /\ Member(ElementAt(p[1], p[2]), "key", JBool(TRUE))
          /\ Decoded(p).key = TRUE

\* The literal type of a kind's default, and the literal a JSON value is
\* read as.
LiteralType(tag) ==
    CASE tag = "cds.UUID" -> "String"
      [] tag = "cds.String" -> "String"
      [] tag = "cds.Boolean" -> "bool"
      [] tag = "cds.Integer" -> "i64"
IsLiteral(T, x) ==
    CASE T = "String" -> x.t = "String"
      [] T = "bool" -> x.t = "Bool"
      [] T = "i64" -> x.t = "Number" /\ x.N \in {"PosInt", "NegInt"} /\ ~x.wide
Literal(T, x) ==
    CASE T = "String" -> [ty |-> "String", s |-> x.s]
      [] T = "bool" -> [ty |-> "bool", b |-> x.b]
      [] T = "i64" -> [ty |-> "i64", n |-> x.n]
IsValOf(T, d) ==
    d.t = "Object" /\ Len(d.m) = 1 /\ d.m[1].k = "val" /\ IsLiteral(T, d.m[1].v)

\* A "length" field a String element decodes with: absent, null or an
\* unsigned integer.
LengthDecodes(el) ==
    \/ ~HasField(el, "length")
    \/ FieldOf(el, "length").t = "Null"
    \/ FieldOf(el, "length").t = "Number" /\ FieldOf(el, "length").N = "PosInt"

\* C7 as stated: for each of the four kinds, an element (whose other fields
\* decode) without a "default" field decodes with default = None, one with
\* "default": {"val": X}, X of the kind's literal type, with Some(Val(X)), and
\* any other "default" field, null included, is a decode failure.
C7_AsStated ==
    Done /\ HasDefinitions =>
        \A p \in ElementPlaces : \A tag \in KnownTags :
           LET el == ElementAt(p[1], p[2])
               T == LiteralType(tag)
               lengthOk == tag # "cds.String" \/ LengthDecodes(el)
           IN  HasTag(el, tag) =>
                  IF ~HasField(el, "default")
                  THEN /\ FailedAt(p) => ~lengthOk
                       /\ IsOk(result) => HasDecoded(p) /\ Decoded(p).kind.default = None
                  ELSE IF IsValOf(T, FieldOf(el, "default"))
                  THEN /\ FailedAt(p) => ~lengthOk
                       /\ IsOk(result) =>
                             /\ HasDecoded(p)
                             /\ Decoded(p).kind.default =
                                   Some(Val(Literal(T, FieldOf(el, "default").m[1].v)))
                  ELSE IsErr(result)

\* C7: for each of the four kinds, an element whose other fields decode (a
\* String element's "length" is absent, null or an unsigned integer) decodes
\* with default = None when it has no "default" field or a null one, with
\* Some(Val(X)) when it has "default": {"val": X} and X is of the kind's
\* literal type (a string, a boolean, an integer of the i64 range), and fails
\* to decode for every other "default" field.
C7_DefaultShape ==
    Done /\ HasDefinitions =>
        \A p \in ElementPlaces : \A tag \in KnownTags :
           LET el == ElementAt(p[1], p[2])
               T == LiteralType(tag)
               lengthOk == tag # "cds.String" \/ LengthDecodes(el)
           IN  HasTag(el, tag) =>
                  IF ~HasField(el, "default") \/ Member(el, "default", JNull)
                  THEN /\ FailedAt(p) => ~lengthOk
                       /\ IsOk(result) => HasDecoded(p) /\ Decoded(p).kind.default = None
                  ELSE IF IsValOf(T, FieldOf(el, "default"))
                  THEN /\ FailedAt(p) => ~lengthOk
                       /\ IsOk(result) =>
                             /\ HasDecoded(p)
                             /\ Decoded(p).kind.default =
                                   Some(Val(Literal(T, FieldOf(el, "default").m[1].v)))
                  ELSE IsErr(result)

C7_Witness ==
    /\ Done /\ IsOk(result) /\ HasDefinitions
    /\ \E p \in ElementPlaces :
          /\ HasTag(ElementAt(p[1], p[2]), "cds.Integer")
          /\ Member(ElementAt(p[1], p[2]), "default", JNull)
          /\ Decoded(p).kind = [type |-> "Integer", default |-> None]
    /\ \E p \in ElementPlaces :
          /\ HasTag(ElementAt(p[1], p[2]), "cds.String")
          /\ Decoded(p).kind.default = Some(Val(RString("myDefaultName")))

(***************************************************************************)
(* Claims about the SELECT builder.                                        *)
(***************************************************************************)

\* The arguments of the calls of one builder method, concatenated in call
\* order.
RECURSIVE ArgsOf(_, _)
ArgsOf(cs, op) ==
    IF cs = <<>> THEN <<>>
    ELSE ArgsOf(SubSeq(cs, 1, Len(cs) - 1), op)
         \o (IF cs[Len(cs)].op = op THEN cs[Len(cs)].args ELSE <<>>)

\* The strings of strs, each but the first preceded by sep.
Joined(strs, sep) ==
    LET upto[n \in 0..Len(strs)] ==
            IF n = 0 THEN ""
            ELSE IF n = 1 THEN strs[1]
            ELSE upto[n - 1] \o sep \o strs[n]
    IN  upto[Len(strs)]

\* C8: after SELECT::from and any columns(...) and filter(...) calls, to_sql
\* returns "SELECT " + the columns joined by "," + " FROM " + source, or
\* "SELECT * FROM " + source when there are no columns, followed by
\* "\n  WHERE " + the filter tokens joined by one space exactly when there
\* are filter tokens; the columns and tokens are the arguments of all the
\* columns and filter calls, in call order.
C8_ToSql ==
    sql # NoSql =>
        LET source == sqlCalls[1].args[1]
            cols == ArgsOf(sqlCalls, "columns")
            toks == ArgsOf(sqlCalls, "filter")
            head == IF cols # <<>>
                    THEN "SELECT " \o Joined(cols, ",") \o " FROM " \o source
                    ELSE "SELECT * FROM " \o source
            tail == IF toks # <<>> THEN "\n  WHERE " \o Joined(toks, " ") ELSE ""
        IN  sql.text = head \o tail

C8_Witness ==
    /\ sql # NoSql
    /\ sqlCalls = <<Call("from", <<"example_entity">>),
                    Call("columns", <<"col1">>),
                    Call("filter", <<"(", "a", ">", "2", ")">>),
                    Call("columns", <<"col1", "col2">>)>>
    /\ sql.text = "SELECT col1,col1,col2 FROM example_entity\n  WHERE ( a > 2 )"

====
